---- MODULE Spec2Model ----
(***************************************************************************)
(* Model of the Temu HTML-to-CSV converter (src/html2csv_final.py) and of  *)
(* click_see_more_button of the scraper (src/temu_scraper.py).             *)
(*                                                                         *)
(* Text is a sequence of one-character strings, so that the regular        *)
(* expressions of the source are modelled by what they match.  Numbers are *)
(* exact decimals [num, den]; a float too large for a double is            *)
(* [num |-> 1, den |-> 0] (inf) and nan is [num |-> 0, den |-> 0].         *)
(***************************************************************************)
EXTENDS Integers, Sequences, FiniteSets, TLC

VARIABLES
    inputExists,      \* os.path.exists(INPUT_HTML_FILE)
    doc,              \* the parsed document: nodes in document order
    outFile,          \* OUTPUT_CSV_FILE: NoFile or its rows
    pc,               \* position in main / parse_temu_html
    actual_products,  \* parse_temu_html: the filtered links (node ids)
    idx,              \* parse_temu_html: enumerate index of the loop
    products,         \* parse_temu_html: the records appended so far
    parents,          \* per processed candidate: the local `parent` at line 100
    emitted,          \* per record of products: the idx that appended it
    raised,           \* the idx whose processing ended in the except clause
    report,           \* what main told the caller
    page,             \* scraper: per xpath, what the driver finds for it
    click_pc,         \* position in click_see_more_button
    xpath_i,          \* click_see_more_button: index of `xpath` in xpaths
    tried,            \* the xpaths whose loop body has started, in order
    clicks,           \* the clicks performed: which xpath, and how
    result            \* what click_see_more_button returned

\* the state of one call of click_see_more_button
click_vars == <<page, click_pc, xpath_i, tried, clicks, result>>

vars == <<inputExists, doc, outFile, pc, actual_products, idx, products,
          parents, emitted, raised, report, click_vars>>

----------------------------------------------------------------------------
(* Characters and text *)

Digits == {"0", "1", "2", "3", "4", "5", "6", "7", "8", "9"}

\* One symbol standing for a run of 309 consecutive '9' characters: the
\* shortest digit run float() turns into inf.  \d matches it; [0-5] does not.
BigRun == "9{309}"

DigitClass == Digits \cup {BigRun}
DigitCommaClass == DigitClass \cup {","}
SpaceClass == {" ", "\t", "\n"}

DigitVal(c) ==
    CASE c = "0" -> 0 [] c = "1" -> 1 [] c = "2" -> 2 [] c = "3" -> 3
      [] c = "4" -> 4 [] c = "5" -> 5 [] c = "6" -> 6 [] c = "7" -> 7
      [] c = "8" -> 8 [] c = "9" -> 9

\* str.lower() on the letters the patterns mention
Lower(c) ==
    CASE c = "S" -> "s" [] c = "O" -> "o" [] c = "L" -> "l" [] c = "D" -> "d"
      [] c = "R" -> "r" [] c = "E" -> "e" [] c = "V" -> "v" [] c = "I" -> "i"
      [] c = "W" -> "w" [] c = "A" -> "a" [] c = "T" -> "t" [] c = "N" -> "n"
      [] c = "G" -> "g" [] c = "K" -> "k"
      [] OTHER -> c

Range(s) == {s[i] : i \in DOMAIN s}

\* t[i:i+len(lit)] == lit
HasAt(t, i, lit) ==
    /\ i >= 1
    /\ i + Len(lit) - 1 <= Len(t)
    /\ \A k \in 1..Len(lit) : t[i + k - 1] = lit[k]

\* the same under re.IGNORECASE (lit is lower case)
HasAtI(t, i, lit) ==
    /\ i >= 1
    /\ i + Len(lit) - 1 <= Len(t)
    /\ \A k \in 1..Len(lit) : Lower(t[i + k - 1]) = lit[k]

\* lit in t
Contains(t, lit) == \E i \in 1..Len(t) : HasAt(t, i, lit)

\* t.startswith(lit)
StartsWith(t, lit) == HasAt(t, 1, lit)

\* greedy X*: the first position from i on whose character is not in Class
RECURSIVE Skip(_, _, _)
Skip(t, i, Class) ==
    IF i <= Len(t) /\ t[i] \in Class THEN Skip(t, i + 1, Class) ELSE i

\* X? for a single character
SkipOne(t, i, c) == IF i <= Len(t) /\ t[i] = c THEN i + 1 ELSE i

RECURSIVE Concat(_)
Concat(ss) == IF ss = <<>> THEN <<>> ELSE Head(ss) \o Concat(Tail(ss))

\* str.replace(lit, '')
RECURSIVE Remove(_, _)
Remove(t, lit) ==
    IF t = <<>> THEN <<>>
    ELSE IF HasAt(t, 1, lit) THEN Remove(SubSeq(t, Len(lit) + 1, Len(t)), lit)
    ELSE <<Head(t)>> \o Remove(Tail(t), lit)

\* str.strip()
Strip(t) ==
    IF \A i \in 1..Len(t) : t[i] \in SpaceClass THEN <<>>
    ELSE LET a == Skip(t, 1, SpaceClass)
             b == CHOOSE j \in 1..Len(t) :
                      /\ t[j] \notin SpaceClass
                      /\ \A k \in (j + 1)..Len(t) : t[k] \in SpaceClass
         IN SubSeq(t, a, b)

\* re.sub(r'\s+', ' ', t)
RECURSIVE CollapseSpace(_)
CollapseSpace(t) ==
    IF t = <<>> THEN <<>>
    ELSE IF Head(t) \in SpaceClass
         THEN <<" ">> \o CollapseSpace(SubSeq(t, Skip(t, 1, SpaceClass), Len(t)))
         ELSE <<Head(t)>> \o CollapseSpace(Tail(t))

----------------------------------------------------------------------------
(* Numbers *)

None == [none |-> TRUE]
Num(n, d) == [num |-> n, den |-> d]
Zero == Num(0, 1)
Inf == Num(1, 0)
NaN == Num(0, 0)
Raise == [exc |-> "OverflowError"]

IsNum(v) == DOMAIN v = {"num", "den"}
Gt(a, b) == a.num * b.den > b.num * a.den
Positive(a) == a.num > 0
\* Python truthiness of None / a number
Truthy(v) == IsNum(v) /\ (v.num # 0 \/ v.den = 0)

RECURSIVE Pow10(_)
Pow10(k) == IF k = 0 THEN 1 ELSE 10 * Pow10(k - 1)

RECURSIVE DigitsVal(_)
DigitsVal(ds) ==
    IF ds = <<>> THEN 0 ELSE 10 * DigitsVal(SubSeq(ds, 1, Len(ds) - 1)) + DigitVal(ds[Len(ds)])

\* float(s) for s = digits+ [ '.' digits* ].  A fractional part is read up
\* to its first BigRun, which rounds the last place up.
ParseFloat(s) ==
    LET dot == Skip(s, 1, DigitClass)
        ip == SubSeq(s, 1, dot - 1)
        fp == SubSeq(s, dot + 1, Len(s))
        cut == Skip(fp, 1, Digits)
        fd == SubSeq(fp, 1, cut - 1)
        up == IF cut <= Len(fp) THEN 1 ELSE 0
    IN IF BigRun \in Range(ip) THEN Inf
       ELSE Num(DigitsVal(ip) * Pow10(Len(fd)) + DigitsVal(fd) + up, Pow10(Len(fd)))

\* int(s) for a digit string
ParseInt(s) == IF BigRun \in Range(s) THEN Inf ELSE Num(DigitsVal(s), 1)

\* int(x): truncation; OverflowError on inf
IntOf(x) == IF x.den = 0 THEN Raise ELSE Num(x.num \div x.den, 1)

----------------------------------------------------------------------------
(* Literals of the patterns *)

L_Rs == <<"R", "s">>
L_RsDot == <<"R", "s", ".">>
L_out_of == <<"o", "u", "t", " ", "o", "f">>
\* "*" stands for the star glyph U+2605 of the rating pattern
L_star == <<"*">>
L_sold == <<"s", "o", "l", "d">>
L_review == <<"r", "e", "v", "i", "e", "w">>
L_rating == <<"r", "a", "t", "i", "n", "g">>
L_g == <<"-", "g", "-">>
L_http == <<"h", "t", "t", "p">>
L_pk_en == <<"/", "p", "k", "-", "e", "n", "/">>
L_html == <<".", "h", "t", "m", "l">>
L_channel == <<"c", "h", "a", "n", "n", "e", "l">>
L_home_kitchen == <<"h", "o", "m", "e", "-", "k", "i", "t", "c", "h", "e", "n">>
L_category == <<"c", "a", "t", "e", "g", "o", "r", "y">>
L_search == <<"s", "e", "a", "r", "c", "h">>
Origin == <<"h", "t", "t", "p", "s", ":", "/", "/", "w", "w", "w", ".",
            "t", "e", "m", "u", ".", "c", "o", "m">>

NoMatch == [ok |-> FALSE]
Match(g, n) == [ok |-> TRUE, group |-> g, next |-> n]

\* re.search returns the match at the leftmost position that matches
First(ms) ==
    LET hits == {i \in DOMAIN ms : ms[i].ok}
    IN IF hits = {} THEN NoMatch
       ELSE ms[CHOOSE i \in hits : \A j \in hits : i <= j]

----------------------------------------------------------------------------
(* extract_price_from_text and the price fields *)

\* r'\d+\.?\d*' matched at i
NumberAt(t, i) ==
    IF t[i] \in DigitClass
    THEN LET a == Skip(t, i, DigitClass)
             b == SkipOne(t, a, ".")
             c == Skip(t, b, DigitClass)
         IN Match(SubSeq(t, i, c - 1), c)
    ELSE NoMatch

\* re.search(r'\d+\.?\d*', t)
NumberSearch(t) == First([i \in 1..Len(t) |-> NumberAt(t, i)])

extract_price_from_text(text) ==
    IF text = <<>> THEN None
    ELSE LET t == Strip(Remove(Remove(Remove(text, L_RsDot), L_Rs), <<",">>))
             m == NumberSearch(t)
         IN IF m.ok THEN ParseFloat(m.group) ELSE None

\* r'Rs\.?\s*([0-9,]+\.?\d*)' matched at i
PriceAt(t, i) ==
    LET a == i + 2
        b == SkipOne(t, a, ".")
        c == Skip(t, b, SpaceClass)
        d == Skip(t, c, DigitCommaClass)
        e == SkipOne(t, d, ".")
        f == Skip(t, e, DigitClass)
    IN IF HasAt(t, i, L_Rs) /\ d > c THEN Match(SubSeq(t, c, f - 1), f) ELSE NoMatch

\* re.findall of the price pattern from position i on
RECURSIVE FindAllPrices(_, _)
FindAllPrices(t, i) ==
    IF i > Len(t) THEN <<>>
    ELSE LET m == PriceAt(t, i)
         IN IF m.ok THEN <<m.group>> \o FindAllPrices(t, m.next)
            ELSE FindAllPrices(t, i + 1)

\* lines 103-105: the positive prices of the container text, in order
Prices(parent_text) ==
    LET found == FindAllPrices(parent_text, 1)
        parsed == [k \in 1..Len(found) |-> extract_price_from_text(found[k])]
    IN SelectSeq(parsed, LAMBDA p : Truthy(p) /\ Positive(p))

\* line 107
CurrentPrice(prices) == IF Len(prices) >= 1 THEN prices[1] ELSE None

\* line 108 with >= for >
OriginalPrice_NotLess(prices) ==
    IF Len(prices) >= 2 /\ ~Gt(prices[1], prices[2]) THEN prices[2] ELSE None

\* line 108
OriginalPrice(prices) ==
    IF Len(prices) >= 2 /\ Gt(prices[2], prices[1]) THEN prices[2] ELSE None

\* round(n / d, 0), ties to even, for n >= 0 and d > 0
RoundDiv(n, d) ==
    LET q == n \div d
        r == n % d
    IN IF 2 * r > d \/ (2 * r = d /\ q % 2 = 1) THEN q + 1 ELSE q

\* lines 111-113
Discount(current_price, original_price) ==
    IF Truthy(original_price) /\ Truthy(current_price) /\ Gt(original_price, current_price)
    THEN IF original_price.den = 0 THEN NaN
         ELSE Num(RoundDiv((original_price.num * current_price.den
                              - current_price.num * original_price.den) * 10000,
                           original_price.num * current_price.den), 100)
    ELSE Zero

----------------------------------------------------------------------------
(* extract_number and the sold count *)

\* r'(\d+\.?\d*)K' matched at i
NumberKAt(t, i) ==
    LET m == NumberAt(t, i)
    IN IF m.ok /\ m.next <= Len(t) /\ t[m.next] = "K"
       THEN Match(m.group, m.next + 1) ELSE NoMatch

\* re.search(r'(\d+\.?\d*)K', t)
NumberKSearch(t) == First([i \in 1..Len(t) |-> NumberKAt(t, i)])

\* the whole products n * 1000, n a numeral of one fractional digit below
\* 100, that the binary64 product float(n) * 1000 falls short of:
\* float('32.3') * 1000 is 32299.999999999996.  The product of an integer
\* numeral is exact.
ShortProducts == {32300, 64100, 64600, 65100}

\* int(float(g) * 1000), for a numeral g that is an integer or has one
\* fractional digit and lies below 100
TimesThousand(g) ==
    LET x == ParseFloat(g)
        whole == x.den # 0 /\ (x.num * 1000) % x.den = 0
    IN IF whole /\ (x.num * 1000) \div x.den \in ShortProducts
       THEN Num((x.num * 1000) \div x.den - 1, 1)
       ELSE IntOf(Num(x.num * 1000, x.den))

extract_number(text) ==
    IF text = <<>> THEN None
    ELSE LET t == Remove(Remove(text, <<",">>), <<" ">>)
             k == NumberKSearch(t)
             m == NumberSearch(t)
         IN IF "K" \in Range(t) /\ k.ok THEN TimesThousand(k.group)
            ELSE IF m.ok THEN ParseFloat(m.group)
            ELSE None

\* r'(\d+\.?\d*K?\+?)\s*sold' with re.IGNORECASE, matched at i
SoldAt(t, i) ==
    LET m == NumberAt(t, i)
        d == IF m.next <= Len(t) /\ Lower(t[m.next]) = "k" THEN m.next + 1 ELSE m.next
        e == SkipOne(t, d, "+")
        f == Skip(t, e, SpaceClass)
    IN IF m.ok /\ HasAtI(t, f, L_sold) THEN Match(SubSeq(t, i, e - 1), f + 4) ELSE NoMatch

\* re.search(r'(\d+\.?\d*K?\+?)\s*sold', t)
SoldSearch(t) == First([i \in 1..Len(t) |-> SoldAt(t, i)])

\* lines 116-119: a number, or Raise when int() overflows
SoldCount(parent_text) ==
    LET sold_match == SoldSearch(parent_text)
        n == extract_number(sold_match.group)
    IN IF ~sold_match.ok THEN Zero
       ELSE IF n = Raise THEN Raise
       ELSE IF Truthy(n) THEN IntOf(n)
       ELSE Zero

----------------------------------------------------------------------------
(* rating, review count, product id, title, url *)

\* r'([0-5]\.?\d*)\s*(?:out of|<star>)' matched at i
RatingAt(t, i) ==
    LET b == SkipOne(t, i + 1, ".")
        c == Skip(t, b, DigitClass)
        d == Skip(t, c, SpaceClass)
    IN IF t[i] \in {"0", "1", "2", "3", "4", "5"}
          /\ (HasAt(t, d, L_out_of) \/ HasAt(t, d, L_star))
       THEN Match(SubSeq(t, i, c - 1), d) ELSE NoMatch

\* re.search(r'([0-5]\.?\d*)\s*(?:out of|<star>)', t)
RatingSearch(t) == First([i \in 1..Len(t) |-> RatingAt(t, i)])

\* r'([4-5]\.\d+)' matched at i
StandaloneRatingAt(t, i) ==
    LET c == Skip(t, i + 2, DigitClass)
    IN IF t[i] \in {"4", "5"} /\ HasAt(t, i + 1, <<".">>) /\ c > i + 2
       THEN Match(SubSeq(t, i, c - 1), c) ELSE NoMatch

\* re.search(r'([4-5]\.\d+)', t)
StandaloneRatingSearch(t) == First([i \in 1..Len(t) |-> StandaloneRatingAt(t, i)])

\* lines 122-130
Rating(parent_text) ==
    LET first == RatingSearch(parent_text)
        rating_match == IF first.ok THEN first
                        ELSE StandaloneRatingSearch(parent_text)
    IN IF rating_match.ok THEN ParseFloat(rating_match.group) ELSE Zero

\* r'(\d+)\s*(?:review|rating)' with re.IGNORECASE, matched at i
ReviewAt(t, i) ==
    LET a == Skip(t, i, DigitClass)
        b == Skip(t, a, SpaceClass)
    IN IF t[i] \in DigitClass /\ (HasAtI(t, b, L_review) \/ HasAtI(t, b, L_rating))
       THEN Match(SubSeq(t, i, a - 1), b) ELSE NoMatch

\* re.search(r'(\d+)\s*(?:review|rating)', t)
ReviewSearch(t) == First([i \in 1..Len(t) |-> ReviewAt(t, i)])

\* lines 133-135
ReviewCount(parent_text) ==
    LET review_match == ReviewSearch(parent_text)
    IN IF review_match.ok THEN ParseInt(review_match.group) ELSE Zero

\* r'-g-(\d+)' matched at i
ProductIdAt(t, i) ==
    LET c == Skip(t, i + 3, DigitClass)
    IN IF HasAt(t, i, L_g) /\ c > i + 3 THEN Match(SubSeq(t, i + 3, c - 1), c) ELSE NoMatch

\* re.search(r'-g-(\d+)', t)
ProductIdSearch(t) == First([i \in 1..Len(t) |-> ProductIdAt(t, i)])

\* lines 138-141
ProductId(href) ==
    LET id_match == ProductIdSearch(href)
    IN IF id_match.ok THEN id_match.group ELSE <<>>

\* line 144
CleanTitle(title) == Strip(CollapseSpace(title))

\* line 147
MinTitleLen == 5

\* line 147 with >= for >
TitleOk_AtLeast(title) == title # <<>> /\ Len(title) >= MinTitleLen

TitleOk(title) == title # <<>> /\ Len(title) > MinTitleLen

\* line 157
Url(href) == IF ~StartsWith(href, L_http) THEN Origin \o href ELSE href

----------------------------------------------------------------------------
(* anchor discovery *)

\* line 63: re.compile(r'/pk-en/.*\.html').search(href)
ProductShape(href) ==
    \E i \in 1..Len(href) :
        /\ HasAt(href, i, L_pk_en)
        /\ \E j \in (i + 7)..Len(href) :
              /\ HasAt(href, j, L_html)
              /\ \A k \in (i + 7)..(j - 1) : href[k] # "\n"

\* line 72
SkipList == {L_channel, L_home_kitchen, L_category, L_search}
Skipped(href) == \E skip \in SkipList : Contains(href, skip)

\* line 75
MinHrefLen == 30

\* line 75 with >= for >
ProductLike_AtLeast(href) == Len(href) >= MinHrefLen /\ "-" \in Range(href)

ProductLike(href) == Len(href) > MinHrefLen /\ "-" \in Range(href)

----------------------------------------------------------------------------
(* The parsed document (line 59): nodes in document order.  Node 1 is the  *)
(* BeautifulSoup object; parent 0 is Python's None.                        *)

Node(tag, parent, text, href) ==
    [tag |-> tag, parent |-> parent, text |-> text, href |-> href]
Elem(tag, parent) == Node(tag, parent, <<>>, <<>>)
TextNode(parent, text) == Node("#text", parent, text, <<>>)

\* tag.find_parent()
find_parent(n) == doc[n].parent

\* node k is node n or lies below it
RECURSIVE IsUnder(_, _)
IsUnder(k, n) == k = n \/ (doc[k].parent # 0 /\ IsUnder(doc[k].parent, n))

\* tag.get_text(): the text nodes below n, concatenated in document order
get_text(n) ==
    Concat([k \in 1..Len(doc) |->
              IF doc[k].tag = "#text" /\ IsUnder(k, n) THEN doc[k].text ELSE <<>>])

\* tag.get_text(strip=True): each string stripped, the empty ones dropped
get_text_strip(n) ==
    Concat([k \in 1..Len(doc) |->
              IF doc[k].tag = "#text" /\ IsUnder(k, n) THEN Strip(doc[k].text) ELSE <<>>])

\* lines 63-76: the links kept by anchor discovery, in document order
IsProductLink(n) == doc[n].tag = "a" /\ ProductShape(doc[n].href)
IsActualProduct(n) ==
    /\ IsProductLink(n)
    /\ ~Skipped(doc[n].href)
    /\ ProductLike(doc[n].href)
ActualProducts == SelectSeq([k \in 1..Len(doc) |-> k], IsActualProduct)

\* lines 87-94: the while loop, entered with parent
RECURSIVE WalkUp(_)
WalkUp(parent) ==
    IF parent # 0 /\ doc[parent].tag # "body"
    THEN IF Contains(get_text(parent), L_RsDot) THEN parent
         ELSE WalkUp(find_parent(parent))
    ELSE parent

\* lines 86-97: the container of a link
Container(link) ==
    LET parent == WalkUp(find_parent(link))
    IN IF parent = 0 THEN find_parent(link) ELSE parent

\* lines 82-158: the body of the try block for one link.  exc says whether
\* it raised, keep whether line 147 accepted the title.
Extract(link) ==
    LET href == doc[link].href
        parent == Container(link)
        parent_text == IF parent # 0 THEN get_text(parent) ELSE <<>>
        prices == Prices(parent_text)
        current_price == CurrentPrice(prices)
        original_price == OriginalPrice(prices)
        sold_count == SoldCount(parent_text)
        title == CleanTitle(get_text_strip(link))
    IN [exc |-> sold_count = Raise,
        keep |-> TitleOk(title),
        parent |-> parent,
        product_data |->
            [product_id |-> ProductId(href),
             title |-> title,
             current_price |-> current_price,
             original_price |-> original_price,
             discount_percent |-> Discount(current_price, original_price),
             sold_count |-> sold_count,
             rating |-> Rating(parent_text),
             review_count |-> ReviewCount(parent_text),
             url |-> Url(href)]]

----------------------------------------------------------------------------
(* save_to_csv *)

NoFile == [exists |-> FALSE, rows |-> <<>>]
File(rows) == [exists |-> TRUE, rows |-> rows]

\* a text cell; Str(<<>>) is the empty cell
Str(s) == [str |-> s]

\* lines 185-195
fieldnames ==
    <<"Product ID", "Title", "Current Price (Rs.)", "Original Price (Rs.)",
      "Discount (%)", "Items Sold", "Rating (Stars)", "Review Count",
      "Product URL">>

\* x or ''
OrEmpty(x) == IF Truthy(x) THEN x ELSE Str(<<>>)

\* lines 202-212 with `or ''` on every numeric field
Row_OrEmptyEverywhere(product) ==
    <<Str(product.product_id),
      Str(product.title),
      OrEmpty(product.current_price),
      OrEmpty(product.original_price),
      OrEmpty(product.discount_percent),
      OrEmpty(product.sold_count),
      OrEmpty(product.rating),
      OrEmpty(product.review_count),
      Str(product.url)>>

\* lines 202-212: the cells of one row, in fieldnames order
Row(product) ==
    <<Str(product.product_id),
      Str(product.title),
      OrEmpty(product.current_price),
      OrEmpty(product.original_price),
      product.discount_percent,
      product.sold_count,
      product.rating,
      product.review_count,
      Str(product.url)>>

\* save_to_csv opening the file before it looks at products
save_to_csv_OpensFirst(prods, file) ==
    IF prods = <<>> THEN File(<<>>)
    ELSE File(<<fieldnames>> \o [k \in 1..Len(prods) |-> Row(prods[k])])

\* lines 177-212: the destination file after save_to_csv(products, file)
save_to_csv(prods, file) ==
    IF prods = <<>> THEN file
    ELSE File(<<fieldnames>> \o [k \in 1..Len(prods) |-> Row(prods[k])])

----------------------------------------------------------------------------
(* main and parse_temu_html *)

\* main without lines 230-232: parsing starts whether the file exists or not
Main_CheckInput_NoCheck ==
    /\ pc = "main"
    /\ pc' = "parse"
    /\ UNCHANGED <<inputExists, doc, outFile, actual_products, idx, products,
                   parents, emitted, raised, report>>
    /\ UNCHANGED click_vars

\* lines 230-235
Main_CheckInput ==
    /\ pc = "main"
    /\ IF inputExists
       THEN pc' = "parse" /\ UNCHANGED report
       ELSE pc' = "done" /\ report' = "input not found"
    /\ UNCHANGED <<inputExists, doc, outFile, actual_products, idx, products,
                   parents, emitted, raised>>
    /\ UNCHANGED click_vars

\* lines 54-78
Parse_Discover ==
    /\ pc = "parse"
    /\ actual_products' = ActualProducts
    /\ idx' = 1
    /\ pc' = "loop"
    /\ UNCHANGED <<inputExists, doc, outFile, products, parents, emitted,
                   raised, report>>
    /\ UNCHANGED click_vars

\* the loop body without its try/except: the exception leaves the function
Except_Propagates(ps, rs, i) ==
    [products |-> ps, raised |-> rs \cup {i}, pc |-> "raised"]

\* lines 169-171: the except clause; (ps, rs) are products and raised
Except(ps, rs, i) == [products |-> ps, raised |-> rs \cup {i}, pc |-> "loop"]

\* line 160 as products.insert(0, product_data)
products_prepend(ps, product_data) == <<product_data>> \o ps

\* line 160: products.append(product_data)
products_append(ps, product_data) == ps \o <<product_data>>

\* lines 80-171: one iteration of the loop
Parse_Candidate ==
    /\ pc = "loop"
    /\ idx <= Len(actual_products)
    /\ LET e == Extract(actual_products[idx])
           x == Except(products, raised, idx)
       IN /\ parents' = parents \o <<e.parent>>
          /\ IF e.exc
             THEN /\ products' = x.products
                  /\ raised' = x.raised
                  /\ pc' = x.pc
                  /\ UNCHANGED emitted
             ELSE /\ IF e.keep
                     THEN /\ products' = products_append(products, e.product_data)
                          /\ emitted' = emitted \o <<idx>>
                     ELSE UNCHANGED <<products, emitted>>
                  /\ UNCHANGED <<raised, pc>>
    /\ idx' = idx + 1
    /\ UNCHANGED <<inputExists, doc, outFile, actual_products, report>>
    /\ UNCHANGED click_vars

\* lines 173-174 and 238-282
Main_Finish ==
    /\ pc = "loop"
    /\ idx > Len(actual_products)
    /\ IF products # <<>>
       THEN /\ outFile' = save_to_csv(products, outFile)
            /\ report' = "Conversion completed successfully"
       ELSE /\ report' = "No products found"
            /\ UNCHANGED outFile
    /\ pc' = "done"
    /\ UNCHANGED <<inputExists, doc, actual_products, idx, products, parents,
                   emitted, raised>>
    /\ UNCHANGED click_vars

----------------------------------------------------------------------------
(* Input documents.  A card is a div holding, optionally inside one more   *)
(* div, an anchor with its text nodes, followed by the card's own text.    *)

Card(href, strings, wrapped, text) ==
    [href |-> href, strings |-> strings, wrapped |-> wrapped, text |-> text]

\* the nodes of one card placed under node top, after base earlier nodes
CardNodes(card, top, base) ==
    LET div == base + 1
        wrap == IF card.wrapped THEN base + 2 ELSE div
        a == wrap + 1
    IN <<Elem("div", top)>>
       \o (IF card.wrapped THEN <<Elem("div", div)>> ELSE <<>>)
       \o <<Node("a", wrap, <<>>, card.href)>>
       \o [k \in 1..Len(card.strings) |-> TextNode(a, card.strings[k])]
       \o (IF card.text # <<>> THEN <<TextNode(div, card.text)>> ELSE <<>>)

RECURSIVE AddCards(_, _, _)
AddCards(nodes, cards, top) ==
    IF cards = <<>> THEN nodes
    ELSE AddCards(nodes \o CardNodes(Head(cards), top, Len(nodes)), Tail(cards), top)

\* html.parser adds no html or body element of its own: hasBody says
\* whether the file has them
BuildDoc(hasBody, cards, footer) ==
    LET root == <<Elem("[document]", 0)>>
        shell == IF hasBody THEN root \o <<Elem("html", 1), Elem("body", 2)>> ELSE root
        top == Len(shell)
    IN AddCards(shell, cards, top)
       \o (IF footer # <<>> THEN <<TextNode(top, footer)>> ELSE <<>>)

\* '/pk-en/widget-thing-g-998877.html'
H_product ==
    <<"/", "p", "k", "-", "e", "n", "/", "w", "i", "d", "g", "e",
      "t", "-", "t", "h", "i", "n", "g", "-", "g", "-", "9", "9",
      "8", "8", "7", "7", ".", "h", "t", "m", "l">>

\* '/pk-en/plain-widget-thing-page.html'
H_plain ==
    <<"/", "p", "k", "-", "e", "n", "/", "p", "l", "a", "i", "n",
      "-", "w", "i", "d", "g", "e", "t", "-", "t", "h", "i", "n",
      "g", "-", "p", "a", "g", "e", ".", "h", "t", "m", "l">>

\* '/pk-en/category-widgets-g-998877.html'
H_category ==
    <<"/", "p", "k", "-", "e", "n", "/", "c", "a", "t", "e", "g",
      "o", "r", "y", "-", "w", "i", "d", "g", "e", "t", "s", "-",
      "g", "-", "9", "9", "8", "8", "7", "7", ".", "h", "t", "m",
      "l">>

\* 'http-deals/pk-en/widget-g-12.html'
H_http_relative ==
    <<"h", "t", "t", "p", "-", "d", "e", "a", "l", "s", "/", "p",
      "k", "-", "e", "n", "/", "w", "i", "d", "g", "e", "t", "-",
      "g", "-", "1", "2", ".", "h", "t", "m", "l">>

\* 'https://www.temu.com/pk-en/widget-thing-g-998877.html'
H_absolute ==
    <<"h", "t", "t", "p", "s", ":", "/", "/", "w", "w", "w", ".",
      "t", "e", "m", "u", ".", "c", "o", "m", "/", "p", "k", "-",
      "e", "n", "/", "w", "i", "d", "g", "e", "t", "-", "t", "h",
      "i", "n", "g", "-", "g", "-", "9", "9", "8", "8", "7", "7",
      ".", "h", "t", "m", "l">>

\* 'Nice Widget'
S_NiceWidget ==
    <<"N", "i", "c", "e", " ", "W", "i", "d", "g", "e", "t">>

\* 'Hi'
S_Hi ==
    <<"H", "i">>

\* '  Desk \n Lamp '
S_Lamp ==
    <<" ", " ", "D", "e", "s", "k", " ", "\n", " ", "L", "a", "m",
      "p", " ">>

\* 'Rs. 500 Rs. 1,200 3.2K+ sold 4.7 out of 5 120 reviews'
T_ScenarioA ==
    <<"R", "s", ".", " ", "5", "0", "0", " ", "R", "s", ".", " ",
      "1", ",", "2", "0", "0", " ", "3", ".", "2", "K", "+", " ",
      "s", "o", "l", "d", " ", "4", ".", "7", " ", "o", "u", "t",
      " ", "o", "f", " ", "5", " ", "1", "2", "0", " ", "r", "e",
      "v", "i", "e", "w", "s">>

\* 'Rs. 750'
T_ScenarioB ==
    <<"R", "s", ".", " ", "7", "5", "0">>

\* 'Rs. 5 <BigRun> sold'
T_Overflow ==
    <<"R", "s", ".", " ", "5", " ", BigRun, " ", "s", "o", "l", "d">>

\* ' 12 sold'
T_NoPrice ==
    <<" ", "1", "2", " ", "s", "o", "l", "d">>

\* 'Rs. 900 45 out of 50'
T_Rating45 ==
    <<"R", "s", ".", " ", "9", "0", "0", " ", "4", "5", " ", "o",
      "u", "t", " ", "o", "f", " ", "5", "0">>

\* 'Rs. 99 deals'
T_Footer ==
    <<"R", "s", ".", " ", "9", "9", " ", "d", "e", "a", "l", "s">>

\* the cards of the full pipeline's documents
CardKinds ==
    {Card(H_product, <<S_NiceWidget>>, TRUE, T_ScenarioA),
     Card(H_product, <<S_Hi>>, FALSE, T_ScenarioB),
     Card(H_category, <<S_NiceWidget>>, FALSE, T_ScenarioB),
     Card(H_plain, <<S_Lamp>>, TRUE, <<>>),
     Card(H_product, <<S_NiceWidget>>, FALSE, T_Overflow),
     Card(H_http_relative, <<S_NiceWidget>>, FALSE, T_NoPrice),
     Card(H_absolute, <<S_Lamp>>, FALSE, T_Rating45)}

MaxCards == 2

SeqsUpTo(S, n) == UNION {[1..k -> S] : k \in 0..n}

Documents ==
    {BuildDoc(hasBody, cards, footer) :
        hasBody \in BOOLEAN, cards \in SeqsUpTo(CardKinds, MaxCards),
        footer \in {<<>>, T_Footer}}

\* the converter runs on its own: no call of click_see_more_button
NoCall ==
    /\ page = <<>>
    /\ click_pc = "off"
    /\ xpath_i = 0
    /\ tried = <<>>
    /\ clicks = <<>>
    /\ result = "None"

\* what OUTPUT_CSV_FILE holds before the run
StaleFile == File(<<<<"stale">>>>)

Start ==
    /\ pc = "main"
    /\ actual_products = <<>>
    /\ idx = 0
    /\ products = <<>>
    /\ parents = <<>>
    /\ emitted = <<>>
    /\ raised = {}
    /\ report = ""
    /\ NoCall

Init ==
    /\ inputExists \in BOOLEAN
    /\ doc \in Documents
    /\ outFile \in {NoFile, StaleFile}
    /\ Start

\* records as parse_temu_html makes them, for a direct call of save_to_csv
Product(title, current_price, original_price, discount_percent) ==
    [product_id |-> <<>>, title |-> title, current_price |-> current_price,
     original_price |-> original_price, discount_percent |-> discount_percent,
     sold_count |-> Zero, rating |-> Zero, review_count |-> Zero,
     url |-> Origin \o H_plain]

SinkInputs ==
    {<<>>,
     <<Product(S_NiceWidget, None, None, Zero)>>,
     <<Product(S_Lamp, Num(500, 1), Num(1200, 1), Num(5833, 100)),
       Product(S_NiceWidget, Num(750, 1), None, Zero)>>}

\* save_to_csv(records, OUTPUT_CSV_FILE) called by an importer of the module
Call_save_to_csv ==
    /\ pc = "main"
    /\ \E records \in SinkInputs :
          /\ products' = records
          /\ outFile' = save_to_csv(records, outFile)
          /\ report' = IF records = <<>> THEN "No products to save" ELSE "Saved"
    /\ pc' = "returned"
    /\ UNCHANGED <<inputExists, doc, actual_products, idx, parents, emitted, raised>>
    /\ UNCHANGED click_vars

NextMain == Main_CheckInput \/ Parse_Discover \/ Parse_Candidate \/ Main_Finish

Next == NextMain \/ Call_save_to_csv

Spec == Init /\ [][Next]_vars

----------------------------------------------------------------------------
(* Documents of one card, to run main over every text of a family *)

Texts(Vocabulary, n) == {Concat(segs) : segs \in SeqsUpTo(Vocabulary, n)}

OneCard(card) ==
    /\ inputExists = TRUE
    /\ doc = BuildDoc(TRUE, <<card>>, <<>>)
    /\ outFile = NoFile
    /\ Start

\* the pieces the container texts of SpecPrices are made of: 'Rs.0', 'Rs.
\* 12', 'Rs 5.5', 'Rs.1,200', 'Rs.,', '.', ','
PriceVocabulary ==
    {<<"R", "s", ".", "0">>,
     <<"R", "s", ".", " ", "1", "2">>,
     <<"R", "s", " ", "5", ".", "5">>,
     <<"R", "s", ".", "1", ",", "2", "0", "0">>,
     <<"R", "s", ".", ",">>,
     <<".">>,
     <<",">>}

MaxPriceSegs == 4

InitPrices ==
    \E text \in Texts(PriceVocabulary, MaxPriceSegs) :
        OneCard(Card(H_product, <<S_NiceWidget>>, FALSE, text))

SpecPrices == InitPrices /\ [][NextMain]_vars

\* the pieces the container texts of SpecSold are made of: ' 32.3', ' 5',
\* 'K', 'k', '+', ' sold', ' SOLD'.  A numeral starts with a space, so
\* that no two of them run together.
SoldVocabulary ==
    {<<" ", "3", "2", ".", "3">>,
     <<" ", "5">>,
     <<"K">>,
     <<"k">>,
     <<"+">>,
     <<" ", "s", "o", "l", "d">>,
     <<" ", "S", "O", "L", "D">>}

MaxSoldSegs == 4

InitSold ==
    \E text \in Texts(SoldVocabulary, MaxSoldSegs) :
        OneCard(Card(H_product, <<S_NiceWidget>>, FALSE, text))

SpecSold == InitSold /\ [][NextMain]_vars

\* the characters of the anchor strings of SpecTitles: 'a', ' '
TitleAlphabet ==
    {<<"a">>,
     <<" ">>}

MaxTitleChars == 4

\* the anchor's text nodes, one or two of them or none: html.parser makes
\* no empty string
TitleStrings ==
    LET strings == Texts(TitleAlphabet, MaxTitleChars) \ {<<>>}
    IN {<<>>} \cup {<<x>> : x \in strings} \cup {<<x, y>> : x, y \in strings}

InitTitles ==
    \E strings \in TitleStrings, text \in {<<>>, T_Overflow} :
        OneCard(Card(H_plain, strings, TRUE, text))

SpecTitles == InitTitles /\ [][NextMain]_vars

\* the pieces the hrefs of SpecHrefs are made of: 'http',
\* 'https://www.temu.com', '/pk-en/', '.html', 'category', 'nice-
\* widget-g-9988', 'x'
HrefVocabulary ==
    {<<"h", "t", "t", "p">>,
     <<"h", "t", "t", "p", "s", ":", "/", "/", "w", "w", "w", ".",
       "t", "e", "m", "u", ".", "c", "o", "m">>,
     <<"/", "p", "k", "-", "e", "n", "/">>,
     <<".", "h", "t", "m", "l">>,
     <<"c", "a", "t", "e", "g", "o", "r", "y">>,
     <<"n", "i", "c", "e", "-", "w", "i", "d", "g", "e", "t", "-",
       "g", "-", "9", "9", "8", "8">>,
     <<"x">>}

MaxHrefSegs == 4

InitHrefs ==
    \E href \in Texts(HrefVocabulary, MaxHrefSegs) :
        OneCard(Card(href, <<S_NiceWidget>>, FALSE, T_ScenarioB))

SpecHrefs == InitHrefs /\ [][NextMain]_vars

----------------------------------------------------------------------------
(* click_see_more_button of src/temu_scraper.py *)

\* lines 89-98: the selectors, in priority order
xpaths ==
    <<"//div[@role='button' and @aria-label='See more items']",
      "//div[@role='button' and contains(., 'See more')]",
      "//div[contains(@class, '_2ugbvrpI') and @aria-label='See more items']",
      "//button[contains(., 'See more')]",
      "//div[@role='button' and contains(text(), 'See more')]",
      "//button[contains(text(), 'See more')]",
      "//*[contains(text(), 'See more')]",
      "//*[@aria-label='See more items']">>

\* what the driver does with one xpath:
\*   absent       no element within the wait: TimeoutException
\*   hidden       an element, is_displayed() is False
\*   clickable    an element, displayed, click() succeeds
\*   intercepted  an element, displayed, click() raises
\*                ElementClickInterceptedException, the script click works
\*   stale        an element, displayed when found and re-rendered before
\*                the click: click() raises StaleElementReferenceException,
\*                which none of the except clauses names
Present == {"hidden", "clickable", "intercepted", "stale"}
Displayed == {"clickable", "intercepted", "stale"}

\* a click as the page sees it
Click(i, how) == [xpath |-> i, how |-> how]

\* lines 88-125: the call, up to the loop over xpaths
Click_Call ==
    /\ click_pc = "called"
    /\ click_pc' = "loop"
    /\ xpath_i' = 1
    /\ UNCHANGED <<page, tried, clicks, result>>
    /\ UNCHANGED <<inputExists, doc, outFile, pc, actual_products, idx,
                   products, parents, emitted, raised, report>>

\* lines 127-156: one iteration of `for xpath in xpaths`
Click_TryXPath ==
    /\ click_pc = "loop"
    /\ xpath_i <= Len(xpaths)
    /\ tried' = tried \o <<xpath_i>>
    /\ LET button == page[xpath_i]
       IN CASE button = "absent" ->
                 \* line 154: TimeoutException, continue
                 /\ xpath_i' = xpath_i + 1
                 /\ UNCHANGED <<click_pc, clicks, result>>
            [] button = "hidden" ->
                 \* lines 135-137: continue
                 /\ xpath_i' = xpath_i + 1
                 /\ UNCHANGED <<click_pc, clicks, result>>
            [] button = "clickable" ->
                 \* lines 145-147
                 /\ clicks' = clicks \o <<Click(xpath_i, "native")>>
                 /\ result' = "True"
                 /\ click_pc' = "returned"
                 /\ UNCHANGED xpath_i
            [] button = "intercepted" ->
                 \* lines 148-152
                 /\ clicks' = clicks \o <<Click(xpath_i, "script")>>
                 /\ result' = "True"
                 /\ click_pc' = "returned"
                 /\ UNCHANGED xpath_i
            [] button = "stale" ->
                 \* line 145 raises what lines 148 and 154 do not catch
                 /\ click_pc' = "raised"
                 /\ UNCHANGED <<xpath_i, clicks, result>>
    /\ UNCHANGED page
    /\ UNCHANGED <<inputExists, doc, outFile, pc, actual_products, idx,
                   products, parents, emitted, raised, report>>

\* lines 158-164: the loop ended without a return
Click_NotFound ==
    /\ click_pc = "loop"
    /\ xpath_i > Len(xpaths)
    /\ result' = "False"
    /\ click_pc' = "returned"
    /\ UNCHANGED <<page, xpath_i, tried, clicks>>
    /\ UNCHANGED <<inputExists, doc, outFile, pc, actual_products, idx,
                   products, parents, emitted, raised, report>>

\* at most MaxPresent of the xpaths find an element
MaxPresent == 3

Pages ==
    {[i \in 1..Len(xpaths) |-> IF i \in DOMAIN f THEN f[i] ELSE "absent"] :
        f \in UNION {[S -> Present] :
                        S \in {T \in SUBSET (1..Len(xpaths)) :
                                  Cardinality(T) <= MaxPresent}}}

\* the scraper calls click_see_more_button (line 271); the converter is
\* not running
InitClick ==
    /\ page \in Pages
    /\ click_pc = "called"
    /\ xpath_i = 0
    /\ tried = <<>>
    /\ clicks = <<>>
    /\ result = "None"
    /\ inputExists = FALSE
    /\ doc = <<>>
    /\ outFile = NoFile
    /\ pc = "off"
    /\ actual_products = <<>>
    /\ idx = 0
    /\ products = <<>>
    /\ parents = <<>>
    /\ emitted = <<>>
    /\ raised = {}
    /\ report = ""

NextClick == Click_Call \/ Click_TryXPath \/ Click_NotFound

SpecClick == InitClick /\ [][NextClick]_vars

----------------------------------------------------------------------------
(* Claims *)

\* main ran parse_temu_html to its end
Parsed == pc = "done" /\ inputExists

\* the link a record of products was made from, and its container text
LinkOf(k) == actual_products[emitted[k]]
ContainerTextOf(k) == get_text(parents[emitted[k]])

\* the prices matched in a text, parsed, in the order matched
Matched(text) ==
    LET found == FindAllPrices(text, 1)
    IN [j \in 1..Len(found) |-> extract_price_from_text(found[j])]

IsPositive(v) == v # None /\ v.num > 0

FirstPositive(m, j) ==
    /\ j \in 1..Len(m)
    /\ IsPositive(m[j])
    /\ \A i \in 1..(j - 1) : ~IsPositive(m[i])

SecondPositive(m, j) ==
    /\ j \in 1..Len(m)
    /\ IsPositive(m[j])
    /\ \E f \in 1..(j - 1) :
          FirstPositive(m, f) /\ \A i \in (f + 1)..(j - 1) : ~IsPositive(m[i])

\* d is (o - c) / o * 100 rounded to the nearest hundredth
IsDiscountOf(d, c, o) ==
    LET whole == o.num * c.den
        part == (o.num * c.den - c.num * o.den) * 10000
        err == d.num * whole - part
    IN d.den = 100 /\ 2 * err <= whole /\ 2 * err >= 0 - whole

PricesOk(p, text) ==
    LET m == Matched(text)
    IN /\ p.current_price = None <=> ~\E j \in 1..Len(m) : IsPositive(m[j])
       /\ \A j \in 1..Len(m) : FirstPositive(m, j) => p.current_price = m[j]
       /\ p.original_price # None =>
             \E j \in 1..Len(m) : SecondPositive(m, j) /\ p.original_price = m[j]
       /\ \A j \in 1..Len(m) :
             SecondPositive(m, j) =>
                (p.original_price # None <=> Gt(m[j], p.current_price))
       /\ IF p.current_price # None /\ p.original_price # None
          THEN /\ Gt(p.original_price, p.current_price)
               /\ IsDiscountOf(p.discount_percent, p.current_price, p.original_price)
          ELSE p.discount_percent = Zero

\* C1: in every record, current_price is the first positive price matched
\* in the container text (None if there is none), original_price is the
\* second positive price matched and is present exactly when it is greater
\* than current_price; with both present original_price > current_price and
\* discount_percent is (original - current) / original * 100 rounded to two
\* places; otherwise discount_percent is 0.
C1_PricesAndDiscount ==
    \A k \in 1..Len(products) : PricesOk(products[k], ContainerTextOf(k))

C1_Witness ==
    /\ Parsed
    /\ Len(products) = 1
    /\ products[1].original_price # None
    /\ products[1].discount_percent.num > 0
    /\ ~IsPositive(Matched(ContainerTextOf(1))[1])

\* C2: every record has a rating r with 0 <= r <= 5.
C2_RatingInRange ==
    \A k \in 1..Len(products) :
        /\ products[k].rating.num >= 0
        /\ products[k].rating.num <= 5 * products[k].rating.den

\* the proper ancestors of a link whose text contains 'Rs.'
RsAncestors(link) ==
    {n \in 1..Len(doc) :
        n # link /\ IsUnder(link, n) /\ Contains(get_text(n), L_RsDot)}

\* C3: the container of each processed link is its nearest proper ancestor
\* whose text contains 'Rs.', and its immediate parent when no ancestor up
\* to the root contains 'Rs.'.
C3_NearestRsAncestor ==
    \A i \in 1..Len(parents) :
        LET link == actual_products[i]
            S == RsAncestors(link)
        IN IF S = {} THEN parents[i] = doc[link].parent
           ELSE parents[i] \in S /\ \A n \in S : IsUnder(parents[i], n)

\* the cleaned title of the i-th candidate
TitleOf(i) == CleanTitle(get_text_strip(actual_products[i]))

\* no pattern of the extractor matches a text without a digit
NothingToExtract(k) ==
    /\ Range(ContainerTextOf(k)) \cap DigitClass = {}
    /\ ~Contains(doc[LinkOf(k)].href, L_g)

HoldsDefaults(p) ==
    /\ p.current_price = None
    /\ p.original_price = None
    /\ p.discount_percent = Zero
    /\ p.sold_count = Zero
    /\ p.rating = Zero
    /\ p.review_count = Zero
    /\ p.product_id = <<>>

\* C4 as stated: a processed candidate is emitted if and only if its
\* cleaned title is longer than 5.
C4_EmittedIffTitle ==
    \A i \in 1..Len(parents) : i \in Range(emitted) <=> Len(TitleOf(i)) > 5

\* C4 as amended: a processed candidate is emitted if and only if its
\* cleaned title is longer than 5 and its processing raised no exception;
\* every record's title is longer than 5, and a record made where nothing
\* could be extracted holds None, 0 and the empty string.
C4_EmittedIffTitleAndNoRaise ==
    /\ \A i \in 1..Len(parents) :
          i \in Range(emitted) <=> (Len(TitleOf(i)) > 5 /\ i \notin raised)
    /\ \A k \in 1..Len(products) :
          /\ Len(products[k].title) > 5
          /\ products[k].title = TitleOf(emitted[k])
          /\ NothingToExtract(k) => HoldsDefaults(products[k])

C4_Witness ==
    /\ Parsed
    /\ Len(products) = 1
    /\ Len(products[1].title) = 6
    /\ NothingToExtract(1)
    /\ HoldsDefaults(products[1])

\* the records of the candidates whose processing does not raise, in order
RecordsWithoutFailing ==
    LET rest == SelectSeq(actual_products,
                          LAMBDA a : ~Extract(a).exc /\ Extract(a).keep)
    IN [k \in 1..Len(rest) |-> Extract(rest[k]).product_data]

\* C5: an exception in one candidate never leaves parse_temu_html and never
\* ends the loop: the candidate adds no record, the loop goes on with the
\* next candidate, and the records returned are those of the other
\* candidates, as if the failing one were not in the list.
C5_FailureIsolated ==
    /\ pc \in {"main", "parse", "loop", "done", "returned"}
    /\ Range(emitted) \cap raised = {}
    /\ pc = "loop" => Len(parents) = idx - 1
    /\ Parsed => /\ Len(parents) = Len(actual_products)
                 /\ products = RecordsWithoutFailing

C5_Witness ==
    /\ Parsed
    /\ \E i \in raised : \E k \in 1..Len(emitted) : emitted[k] > i

Increasing(s) == \A i, j \in 1..Len(s) : i < j => s[i] < s[j]

\* C6: the records are in the document order of their anchors, one per
\* accepted anchor, and the file holds the header row and then one row per
\* record in the same order.
C6_OrderKept ==
    Parsed =>
        /\ Increasing(actual_products)
        /\ Increasing(emitted)
        /\ Len(emitted) = Len(products)
        /\ \A k \in 1..Len(products) :
              products[k] = Extract(LinkOf(k)).product_data
        /\ \A i \in 1..Len(actual_products) :
              (Extract(actual_products[i]).keep /\ i \notin raised)
                 => i \in Range(emitted)
        /\ products # <<>> =>
              /\ outFile.exists
              /\ Len(outFile.rows) = Len(products) + 1
              /\ outFile.rows[1] = fieldnames
              /\ \A k \in 1..Len(products) :
                    /\ outFile.rows[k + 1][2] = Str(products[k].title)
                    /\ outFile.rows[k + 1][9] = Str(products[k].url)
                    /\ outFile.rows[k + 1] = Row(products[k])

C6_Witness ==
    /\ Parsed
    /\ Len(products) = 2
    /\ products[1].url # products[2].url
    /\ Len(outFile.rows) = 3

\* the file was written from products
Written == pc \in {"done", "returned"} /\ products # <<>>

PriceCellOk(cell, price) ==
    IF price = None THEN cell = Str(<<>>) ELSE cell = price

\* C7: in every row written, an absent price is an empty cell and a present
\* one its value; discount, sold count, rating and review count are always
\* written as numbers, 0 included, never as an empty cell.
C7_CellConvention ==
    Written =>
        \A k \in 1..Len(products) :
            LET row == outFile.rows[k + 1]
                p == products[k]
            IN /\ PriceCellOk(row[3], p.current_price)
               /\ PriceCellOk(row[4], p.original_price)
               /\ row[5] = p.discount_percent /\ IsNum(row[5])
               /\ row[6] = p.sold_count /\ IsNum(row[6])
               /\ row[7] = p.rating /\ IsNum(row[7])
               /\ row[8] = p.review_count /\ IsNum(row[8])

C7_Witness ==
    /\ Written
    /\ Len(products) = 2
    /\ outFile.rows[2][3] = Num(500, 1)
    /\ outFile.rows[2][4] = Num(1200, 1)
    /\ outFile.rows[3][4] = Str(<<>>)
    /\ outFile.rows[3][5] = Zero

L_http_scheme == L_http \o <<":", "/", "/">>
L_https_scheme == L_http \o <<"s", ":", "/", "/">>

\* C8: the url of every record is href itself when href begins with
\* http:// or https://, and the origin followed by href otherwise.
C8_UrlAbsolute ==
    Parsed =>
        \A k \in 1..Len(products) :
            LET href == doc[LinkOf(k)].href
            IN products[k].url =
                  IF StartsWith(href, L_http_scheme) \/ StartsWith(href, L_https_scheme)
                  THEN href ELSE Origin \o href

\* an href the claim excludes
Excluded(href) ==
    \/ \E word \in {L_channel, L_home_kitchen, L_category, L_search} :
          Contains(href, word)
    \/ Len(href) <= 30
    \/ "-" \notin Range(href)
    \/ ~\E i, j \in 1..Len(href) :
          HasAt(href, i, L_pk_en) /\ HasAt(href, j, L_html) /\ j >= i + 7

\* C9: no anchor whose href holds a denylisted word, is not longer than 30,
\* has no hyphen or has not the shape /pk-en/....html is among the links
\* the loop works on, so none is resolved, extracted from or emitted.
C9_ExcludedNeverProcessed ==
    /\ Len(parents) <= Len(actual_products)
    /\ Len(emitted) = Len(products)
    /\ \A k \in 1..Len(emitted) : emitted[k] \in 1..Len(parents)
    /\ \A i \in 1..Len(actual_products) :
          /\ doc[actual_products[i]].tag = "a"
          /\ ~Excluded(doc[actual_products[i]].href)

C9_Witness ==
    /\ Parsed
    /\ products = <<>>
    /\ parents = <<>>
    /\ \E n \in 1..Len(doc) :
          /\ doc[n].tag = "a"
          /\ Contains(doc[n].href, L_category)
          /\ Len(doc[n].href) > 30
          /\ ProductShape(doc[n].href)

\* C10: with no records nothing is written: a call of save_to_csv with the
\* empty sequence leaves the destination file as it was, and main, having
\* parsed no record, leaves it as it was and reports that no products were
\* found.
C10_EmptyWritesNothing ==
    [][/\ (pc = "main" /\ pc' = "returned" /\ products' = <<>>)
          => (outFile' = outFile /\ report' = "No products to save")
       /\ (pc = "loop" /\ pc' = "done" /\ products = <<>>)
          => (outFile' = outFile /\ report' = "No products found")]_vars

C10_Witness ==
    /\ pc = "returned"
    /\ products = <<>>
    /\ outFile = StaleFile
    /\ report = "No products to save"

\* C11: when the input file does not exist, the step main takes reports the
\* failure and ends main: parse_temu_html has discovered and processed
\* nothing, no record exists, and the output file is what it was before
\* (absent if it was absent, unchanged if it was there)
C11_MissingInputReturnsEarly ==
    [][(~inputExists /\ pc = "main" /\ pc' # "returned")
         => /\ pc' = "done"
            /\ report' = "input not found"
            /\ outFile' = outFile
            /\ actual_products' = <<>>
            /\ parents' = <<>>
            /\ products' = <<>>]_vars

\* main has returned on a missing input, with an older output file in place
C11_Witness ==
    /\ ~inputExists
    /\ pc = "done"
    /\ report = "input not found"
    /\ outFile = StaleFile

\* the numeral a sold match starts with, and whether a 'K' follows it
NumeralOf(g) == NumberAt(g, 1).group
CarriesK(g) == Len(NumeralOf(g)) < Len(g) /\ g[Len(NumeralOf(g)) + 1] = "K"

\* the sold count the first '<number> sold' match of a text stands for:
\* the numeral times 1000 if it carries a 'K', truncated to an integer
ExpectedSold(text) ==
    LET m == SoldSearch(text)
        x == ParseFloat(NumeralOf(m.group))
    IN IF ~m.ok THEN Zero
       ELSE IF CarriesK(m.group) THEN Num((x.num * 1000) \div x.den, 1)
       ELSE Num(x.num \div x.den, 1)

\* C12: the sold_count of every emitted record is a non-negative integer:
\* 0 when the container text has no '<number> sold' match, otherwise the
\* numeral of the first match (case-insensitive), times 1000 when it
\* carries a 'K' suffix, with or without '+', truncated to an integer
C12_SoldCount ==
    Parsed =>
        \A k \in 1..Len(products) :
            LET sold_count == products[k].sold_count
            IN /\ IsNum(sold_count)
               /\ sold_count.den = 1
               /\ sold_count.num >= 0
               /\ sold_count = ExpectedSold(ContainerTextOf(k))

\* the call of click_see_more_button has ended, by a return or an exception
CallEnded == click_pc \in {"returned", "raised"}

\* the xpaths whose element is present and displayed
Shown == {i \in 1..Len(xpaths) : page[i] \in Displayed}

\* C13: one call tries the xpaths strictly in list order, skipping those
\* whose element is absent or not displayed; it clicks the element of the
\* first xpath that is present and displayed, by script when the native
\* click is intercepted; it performs at most one click, returns True iff
\* it clicked, and returns False only after every xpath has been tried
\* without a click
C13_ClickFirstShown ==
    /\ \A k \in 1..Len(tried) : tried[k] = k
    /\ Len(clicks) <= 1
    /\ result = "True" <=> (click_pc = "returned" /\ Len(clicks) = 1)
    /\ result = "False" => (Len(tried) = Len(xpaths) /\ clicks = <<>>)
    /\ CallEnded =>
          IF Shown = {}
          THEN result = "False"
          ELSE LET first == CHOOSE i \in Shown : \A j \in Shown : i <= j
               IN /\ result = "True"
                  /\ Len(tried) = first
                  /\ clicks = <<Click(first, IF page[first] = "intercepted"
                                              THEN "script" ELSE "native")>>

====
